---- MODULE Spec2Model ----
(***************************************************************************)
(* Model of tokenify.py: the path sampler (TokenShape.from_svg_path), the  *)
(* colour grouping (TokenGroup.by_color, TokenScene.from_svg), the script  *)
(* emitter (render_base, TokenOutputWriter, render_faces) and the batch    *)
(* driver (make_amiibozo, __main__).                                       *)
(*                                                                         *)
(* Lengths are exact rationals over the common denominator PxDen: the      *)
(* float v * (25.4e-3 / 72) is the integer numerator v * PxNum.  None is   *)
(* modelled by the falsy value of the same type (snap 0, fill "").         *)
(***************************************************************************)
EXTENDS Integers, Sequences, FiniteSets, TLC

VARIABLES
    config,     \* the token list of config.json, in the order __main__ visits it
    cfgOK,      \* config.json exists and parses
    pc,         \* position of the batch driver
    step,       \* index of the next writer call of render_faces
    tok,        \* index of the token being made
    scenes,     \* [front, back]: the two scenes of the current token
    held,       \* tokens whose render_file handle is acquired and not released
    acquired,   \* log of handle acquisitions, one token index per acquisition
    script,     \* the emitted stream of the current token's scad file
    writer,     \* the current TokenOutputWriter: its two FactoryDict caches
    resolved,   \* entity (face, kind, index) -> the names a lookup gave it
    attempted,  \* tokens for which make_amiibozo was called
    failDepth,  \* number of blocks open where a failure was raised, -1 if none
    unit_pc,    \* position of the function-level specifications
    unit_in,    \* input of the function applied
    unit_out    \* its result

vars == <<config, cfgOK, pc, step, tok, scenes, held, acquired, script, writer,
          resolved, attempted, failDepth, unit_pc, unit_in, unit_out>>

mainVars == <<config, cfgOK, pc, step, tok, scenes, held, acquired, script,
              writer, resolved, attempted, failDepth>>

unitVars == <<unit_pc, unit_in, unit_out>>

-----------------------------------------------------------------------------
(* Bounds *)

MaxTokens == 2
MaxPts == 3
MaxShapes == 3

(* Program constants *)

\* px = 25.4e-3 / 72 = PxNum / PxDen
PxNum == 127
PxDen == 360000
\* the 90 of length(90 - svg_point.x)
TokenWidth == 90

-----------------------------------------------------------------------------
(* Generic helpers *)

Range(s) == { s[i] : i \in 1..Len(s) }

SeqsUpTo(S, n) == UNION { [1..k -> S] : k \in 0..n }

RECURSIVE Flatten(_)
Flatten(ss) == IF ss = <<>> THEN <<>> ELSE Head(ss) \o Flatten(Tail(ss))

-----------------------------------------------------------------------------
(* TokenShape.from_svg_path *)

\* Python's round(): to the nearest integer, ties to the even one; a / b, b > 0
PyRound(a, b) ==
    LET q == a \div b
        r == a % b
    IN  IF 2 * r < b THEN q
        ELSE IF 2 * r > b THEN q + 1
        ELSE IF q % 2 = 0 THEN q ELSE q + 1

\* length(v): the numerator of v * px over PxDen; snap is a numerator over PxDen
length(v, snap) ==
    LET scaled == v * PxNum
    IN  IF snap # 0 THEN snap * PyRound(scaled, snap) ELSE scaled

\* The mirror flag dropped: the back face sampled like the front
point_unmirrored(svg_point, snap, reverse) ==
    <<length(svg_point[1], snap), length(svg_point[2], snap)>>

point(svg_point, snap, reverse) ==
    LET x == IF reverse THEN length(TokenWidth - svg_point[1], snap)
                        ELSE length(svg_point[1], snap)
        y == length(svg_point[2], snap)
    IN  <<x, y>>

\* svg_extrude.util.iter.filter_repetition: drops an item equal to its predecessor
RECURSIVE filter_repetition(_)
filter_repetition(s) ==
    IF Len(s) <= 1 THEN s
    ELSE LET rest == filter_repetition(Tail(s))
         IN  IF Head(s) = Head(rest) THEN rest ELSE <<Head(s)>> \o rest

path(segment, snap, reverse) ==
    LET kept == filter_repetition(segment)
    IN  [i \in 1..Len(kept) |-> point(kept[i], snap, reverse)]

from_svg_path(svg_path, snap, reverse) ==
    LET fill == IF svg_path.fill = "" THEN "black" ELSE svg_path.fill
    IN  [id |-> svg_path.id,
         color |-> fill,
         polygon |-> [i \in 1..Len(svg_path.segments) |->
                         path(svg_path.segments[i], snap, reverse)]]

-----------------------------------------------------------------------------
(* TokenGroup.by_color, TokenScene.from_svg, create_scene *)

Colors == {"red", "blue", "black"}

identity == [c \in Colors |-> c]

\* svg_extrude.util.group_by: an insertion-ordered dict key -> list of values
RECURSIVE group_by(_, _)
group_by(values, keyOf) ==
    IF values = <<>> THEN <<>>
    ELSE LET init == SubSeq(values, 1, Len(values) - 1)
             last == values[Len(values)]
             g    == group_by(init, keyOf)
             k    == keyOf[last.color]
             hit  == { i \in 1..Len(g) : g[i].key = k }
         IN  IF hit = {}
             THEN Append(g, [key |-> k, values |-> <<last>>])
             ELSE [i \in 1..Len(g) |->
                     IF i \in hit
                     THEN [key |-> k, values |-> Append(g[i].values, last)]
                     ELSE g[i]]

\* The group coloured by its first member instead of by the grouping key
create_group_member_color(color, group_shapes, name) ==
    [name |-> name, color |-> group_shapes[1].color, shapes |-> group_shapes]

\* create_group(color, group_shapes): TokenGroup(color, tuple(group_shapes), name=name)
create_group(color, group_shapes, name) ==
    [name |-> name, color |-> color, shapes |-> group_shapes]

\* available_colors: [has |-> FALSE] is None, else closest is available_colors.closest
by_color(shapes, color_mapping, name) ==
    LET grouped == group_by(shapes, color_mapping)
    IN  [i \in 1..Len(grouped) |->
            create_group(grouped[i].key, grouped[i].values, name)]

\* from_svg after svg.parse(file_name).flatten() gave svg_paths
from_svg(svg_paths, file_name, available_colors, snap, reverse) ==
    LET shapes == [i \in 1..Len(svg_paths) |->
                      from_svg_path(svg_paths[i], snap, reverse)]
        color_mapping == IF available_colors.has THEN available_colors.closest
                                                 ELSE identity
    IN  [shapes |-> shapes, groups |-> by_color(shapes, color_mapping, file_name)]

NoPalette == [has |-> FALSE, closest |-> identity]

-----------------------------------------------------------------------------
(* The artwork files under svgs/: the flattened paths svg.parse gives, with *)
(* PRECISION = 1 segments.  File "x" is named by a configuration but absent *)

Files == {"a", "b", "x"}

Present == {"a", "b"}

Artwork(f) ==
    IF f = "a"
    THEN << [id |-> "p1", fill |-> "red",
             segments |-> << << <<45, 0>>, <<45, 10>>, <<45, 10>> >> >>],
            [id |-> "p2", fill |-> "blue",
             segments |-> << << <<0, 0>>, <<10, 0>>, <<10, 10>> >> >>] >>
    ELSE << [id |-> "p1", fill |-> "red",
             segments |-> << << <<20, 0>>, <<30, 0>>, <<30, 10>> >> >>],
            [id |-> "p3", fill |-> "",
             segments |-> << << <<0, 0>>, <<0, 10>>, <<10, 10>> >> >>],
            [id |-> "p4", fill |-> "red",
             segments |-> << << <<5, 5>>, <<6, 5>>, <<6, 6>> >> >>] >>

\* create_scene(filename, reverse): no palette, no snap
create_scene(filename, reverse) ==
    from_svg(Artwork(filename), filename, NoPalette, 0, reverse)

EmptyScene == [shapes |-> <<>>, groups |-> <<>>]

-----------------------------------------------------------------------------
(* The emitted stream.  An event is [k, n, face, op]: k is the statement    *)
(* kind, n the identifier or text (a tuple of strings), face and op the      *)
(* writer call that emitted it.                                              *)

Ev(k, n, face, op) == [k |-> k, n |-> n, face |-> face, op |-> op]

\* Stack of the blocks a stream leaves open; ok is FALSE once a close meets no
\* open of its own kind on top
RECURSIVE OpenBlocks(_)
OpenBlocks(s) ==
    IF s = <<>> THEN [ok |-> TRUE, st |-> <<>>]
    ELSE LET before == OpenBlocks(SubSeq(s, 1, Len(s) - 1))
             e      == s[Len(s)]
         IN  IF ~before.ok THEN before
             ELSE IF e.k = "open" THEN [ok |-> TRUE, st |-> Append(before.st, e)]
             ELSE IF e.k = "close"
                  THEN IF before.st # <<>> /\ before.st[Len(before.st)].n = e.n
                       THEN [ok |-> TRUE,
                             st |-> SubSeq(before.st, 1, Len(before.st) - 1)]
                       ELSE [ok |-> FALSE, st |-> <<>>]
             ELSE before

\* The closes the with statements emit while an exception unwinds them, innermost first
RECURSIVE Unwind(_)
Unwind(st) ==
    IF st = <<>> THEN <<>>
    ELSE LET top == st[Len(st)]
         IN  <<Ev("close", top.n, top.face, top.op)>>
             \o Unwind(SubSeq(st, 1, Len(st) - 1))

\* A plain open/close pair instead of a with statement: nothing closes on a raise
ExecNoUnwind(prog, failAt) ==
    IF failAt = 0 THEN prog ELSE SubSeq(prog, 1, failAt - 1)

\* What a writer call emits when its failAt-th statement raises (0: none does):
\* the statements before it, then the exits of the with blocks then open
ExecWith(prog, failAt) ==
    IF failAt = 0 THEN prog
    ELSE LET done == SubSeq(prog, 1, failAt - 1)
         IN  done \o Unwind(OpenBlocks(done).st)

\* The statements that can raise: every write but a block's closing one
FailPoints(prog) == { i \in 1..Len(prog) : prog[i].k # "close" }

DepthAt(prog, failAt) == Len(OpenBlocks(SubSeq(prog, 1, failAt - 1)).st)

-----------------------------------------------------------------------------
(* render_base *)

Block(name, body, face, op) ==
    <<Ev("open", name, face, op)>> \o body \o <<Ev("close", name, face, op)>>

BaseRaw(text) == <<Ev("raw", <<text>>, "base", "base")>>

render_base ==
    BaseRaw("") \o BaseRaw("// token base")
    \o Block(<<"translate", "15.875,-15.875,-2.64">>,
         Block(<<"difference">>,
              BaseRaw("cylinder(h=2.64, r=16)")
           \o Block(<<"translate", "0,0,-1">>, BaseRaw("cylinder(h=1.48, r=14.4)"),
                    "base", "base")
           \o Block(<<"translate", "0,0,2.16">>, BaseRaw("cylinder(h=1.48, r=14.4)"),
                    "base", "base")
           \o Block(<<"translate", "0,0,1.2">>, BaseRaw("cylinder(h=0.24, r=13.6)"),
                    "base", "base"),
           "base", "base"),
         "base", "base")

-----------------------------------------------------------------------------
(* Names: ShapeNames, TokenGroupNames, and the FactoryDict caches *)

\* svg_extrude.output_writer.ShapeNames: identifiers made from the shape's id
ShapeNames(shape) ==
    [points |-> <<"points", shape.id>>,
     paths |-> <<"paths", shape.id>>,
     shape |-> <<"shape", shape.id>>,
     clipped_shape |-> <<"clipped", shape.id>>]

\* name = sanitize_identifier(group.name + '_' + group.color.display_name())
TokenGroupNames(group) ==
    [name |-> <<group.name, group.color>>,
     group |-> <<"group", group.name, group.color>>,
     solid |-> <<"solid", group.name, group.color>>]

\* FactoryDict.__getitem__ for each key of keys: a missing key gets factory(key).
\* Keys are frozen dataclasses: they hash and compare by value.
ShapeCache(cache, shapes) ==
    [k \in DOMAIN cache \cup Range(shapes) |->
        IF k \in DOMAIN cache THEN cache[k] ELSE ShapeNames(k)]

GroupCache(cache, groups) ==
    [k \in DOMAIN cache \cup Range(groups) |->
        IF k \in DOMAIN cache THEN cache[k] ELSE TokenGroupNames(k)]

\* TokenOutputWriter.__init__: two empty caches
TokenOutputWriter == [shape_names |-> <<>>, group_names |-> <<>>]

-----------------------------------------------------------------------------
(* The writer calls of one face *)

\* OutputWriter.write_points_and_paths
write_points_and_paths(w, shapes, face) ==
    Flatten([i \in 1..Len(shapes) |->
        << Ev("def", w.shape_names[shapes[i]].points, face, "points"),
           Ev("def", w.shape_names[shapes[i]].paths, face, "points") >>])

\* OutputWriter.write_shapes
write_shapes(w, shapes, face) ==
    [i \in 1..Len(shapes) |-> Ev("def", w.shape_names[shapes[i]].shape, face, "shapes")]

\* OutputWriter.write_clipped_shapes
write_clipped_shapes(w, shapes, face) ==
    [i \in 1..Len(shapes) |->
        Ev("def", w.shape_names[shapes[i]].clipped_shape, face, "clipped")]

\* TokenOutputWriter.write_groups
write_groups(w, groups, face) ==
    <<Ev("raw", <<"">>, face, "groups"), Ev("raw", <<"// Groups">>, face, "groups")>>
    \o Flatten([g \in 1..Len(groups) |->
         Block(w.group_names[groups[g]].group,
               [i \in 1..Len(groups[g].shapes) |->
                   Ev("inst", w.shape_names[groups[g].shapes[i]].clipped_shape,
                      face, "groups")],
               face, "groups")])

\* OutputWriter.write_solids
write_solids(w, groups, face) ==
    [g \in 1..Len(groups) |-> Ev("def", w.group_names[groups[g]].solid, face, "solids")]

\* OutputWriter.instantiate_groups, inside writer.flip(False)
instantiate_groups(w, groups, face) ==
    [g \in 1..Len(groups) |->
        Ev("inst", w.group_names[groups[g]].solid, face, "instantiate")]

-----------------------------------------------------------------------------
(* render_faces: its twelve writer calls in program order *)

RenderFacesSwapped ==
    << [face |-> "front", op |-> "points"], [face |-> "front", op |-> "shapes"],
       [face |-> "front", op |-> "clipped"], [face |-> "front", op |-> "groups"],
       [face |-> "front", op |-> "solids"], [face |-> "back", op |-> "points"],
       [face |-> "front", op |-> "instantiate"], [face |-> "back", op |-> "shapes"],
       [face |-> "back", op |-> "clipped"], [face |-> "back", op |-> "groups"],
       [face |-> "back", op |-> "solids"], [face |-> "back", op |-> "instantiate"] >>

render_faces ==
    << [face |-> "front", op |-> "points"], [face |-> "front", op |-> "shapes"],
       [face |-> "front", op |-> "clipped"], [face |-> "front", op |-> "groups"],
       [face |-> "front", op |-> "solids"], [face |-> "front", op |-> "instantiate"],
       [face |-> "back", op |-> "points"], [face |-> "back", op |-> "shapes"],
       [face |-> "back", op |-> "clipped"], [face |-> "back", op |-> "groups"],
       [face |-> "back", op |-> "solids"], [face |-> "back", op |-> "instantiate"] >>

Call == render_faces[step]

Scene == scenes[Call.face]

-----------------------------------------------------------------------------
(* The batch driver *)

Halted == pc \in {"done", "crashed"}

\* How the with block of make_amiibozo leaves the handles when its body raises
HeldNoRelease(h, t) == h

with_exit(h, t) == h \ {t}

\* An uncaught exception inside the with block: the handle is released on the way
\* out of make_amiibozo, and nothing in __main__ catches it
Raise(depth) ==
    /\ held' = with_exit(held, tok)
    /\ pc' = "crashed"
    /\ failDepth' = depth
    /\ UNCHANGED <<config, cfgOK, step, tok, scenes, acquired, attempted>>

\* A writer call of render_faces returned
Returned ==
    /\ IF step < Len(render_faces)
       THEN /\ step' = step + 1
            /\ pc' = pc
       ELSE /\ step' = step
            /\ pc' = "exit"
    /\ UNCHANGED <<config, cfgOK, tok, scenes, held, acquired, attempted, failDepth>>

\* One writer call on the current face: the cache after its lookups, the entities
\* it looked up, and the statements it writes; any of them may raise
WriterCall(w, looked, prog) ==
    /\ writer' = w
    /\ resolved' = [e \in DOMAIN resolved \cup DOMAIN looked |->
                       IF e \in DOMAIN looked THEN looked[e] ELSE resolved[e]]
    /\ \E failAt \in {0} \cup FailPoints(prog) :
          /\ script' = script \o ExecWith(prog, failAt)
          /\ IF failAt = 0 THEN Returned ELSE Raise(DepthAt(prog, failAt))
    /\ UNCHANGED unitVars

WithShapes(w) == [w EXCEPT !.shape_names = ShapeCache(@, Scene.shapes)]

WithGroups(w) ==
    [w EXCEPT !.group_names = GroupCache(@, Scene.groups),
              !.shape_names = ShapeCache(@, Scene.shapes)]

LookedShapes(w) ==
    [e \in { <<Call.face, "shape", i>> : i \in 1..Len(Scene.shapes) } |->
        w.shape_names[Scene.shapes[e[3]]].shape]

LookedGroups(w) ==
    [e \in { <<Call.face, "group", i>> : i \in 1..Len(Scene.groups) } |->
        w.group_names[Scene.groups[e[3]]].group]

\* with open('config.json') ... json.loads: the loop starts, or the run dies here
LoadConfig ==
    /\ pc = "load"
    /\ IF ~cfgOK THEN pc' = "crashed" /\ tok' = tok
       ELSE IF config = <<>> THEN pc' = "done" /\ tok' = tok
       ELSE pc' = "scenes" /\ tok' = 1
    /\ UNCHANGED <<config, cfgOK, step, scenes, held, acquired, script, writer,
                   resolved, attempted, failDepth>>
    /\ UNCHANGED unitVars

\* make_amiibozo is called (its locals are those of a new call) and makes the two
\* create_scene calls; svg.parse raises on an absent file, the back scene is not
\* parsed when the front one raised
CreateScenes ==
    /\ pc = "scenes"
    /\ attempted' = attempted \cup {tok}
    /\ IF config[tok][1] \in Present /\ config[tok][2] \in Present
       THEN /\ scenes' = [front |-> create_scene(config[tok][1], FALSE),
                          back  |-> create_scene(config[tok][2], TRUE)]
            /\ pc' = "enter"
       ELSE /\ scenes' = [front |-> EmptyScene, back |-> EmptyScene]
            /\ pc' = "crashed"
    /\ script' = <<>>
    /\ writer' = TokenOutputWriter
    /\ resolved' = <<>>
    /\ UNCHANGED <<config, cfgOK, step, tok, held, acquired, failDepth>>
    /\ UNCHANGED unitVars

\* with ScadRenderer().render_file(...) as scad_file: writer = TokenOutputWriter(scad_file)
RenderFileEnter ==
    /\ pc = "enter"
    /\ held' = held \cup {tok}
    /\ acquired' = Append(acquired, tok)
    /\ script' = <<>>
    /\ writer' = TokenOutputWriter
    /\ resolved' = <<>>
    /\ pc' = "base"
    /\ UNCHANGED <<config, cfgOK, step, tok, scenes, attempted, failDepth>>
    /\ UNCHANGED unitVars

RenderBase ==
    /\ pc = "base"
    /\ \E failAt \in {0} \cup FailPoints(render_base) :
          /\ script' = script \o ExecWith(render_base, failAt)
          /\ IF failAt = 0
             THEN /\ pc' = "faces"
                  /\ step' = 1
                  /\ UNCHANGED <<config, cfgOK, tok, scenes, held, acquired,
                                 attempted, failDepth>>
             ELSE Raise(DepthAt(render_base, failAt))
    /\ UNCHANGED <<writer, resolved>>
    /\ UNCHANGED unitVars

WritePointsAndPaths ==
    /\ pc = "faces" /\ Call.op = "points"
    /\ LET w == WithShapes(writer)
       IN  WriterCall(w, LookedShapes(w), write_points_and_paths(w, Scene.shapes, Call.face))

WriteShapes ==
    /\ pc = "faces" /\ Call.op = "shapes"
    /\ LET w == WithShapes(writer)
       IN  WriterCall(w, LookedShapes(w), write_shapes(w, Scene.shapes, Call.face))

WriteClippedShapes ==
    /\ pc = "faces" /\ Call.op = "clipped"
    /\ LET w == WithShapes(writer)
       IN  WriterCall(w, LookedShapes(w), write_clipped_shapes(w, Scene.shapes, Call.face))

WriteGroups ==
    /\ pc = "faces" /\ Call.op = "groups"
    /\ LET w == WithGroups(writer)
       IN  WriterCall(w, LookedGroups(w), write_groups(w, Scene.groups, Call.face))

WriteSolids ==
    /\ pc = "faces" /\ Call.op = "solids"
    /\ LET w == WithGroups(writer)
       IN  WriterCall(w, LookedGroups(w), write_solids(w, Scene.groups, Call.face))

InstantiateGroups ==
    /\ pc = "faces" /\ Call.op = "instantiate"
    /\ LET w == WithGroups(writer)
       IN  WriterCall(w, LookedGroups(w), instantiate_groups(w, Scene.groups, Call.face))

\* Leaving the with block: the handle is released and the backend compiles the
\* script; its failure raises out of make_amiibozo. Then the next loop iteration.
RenderFileExit ==
    /\ pc = "exit"
    /\ held' = with_exit(held, tok)
    /\ \E compiled \in BOOLEAN :
          IF ~compiled THEN pc' = "crashed" /\ tok' = tok
          ELSE IF tok < Len(config) THEN pc' = "scenes" /\ tok' = tok + 1
          ELSE pc' = "done" /\ tok' = tok
    /\ UNCHANGED <<config, cfgOK, step, scenes, acquired, script, writer,
                   resolved, attempted, failDepth>>
    /\ UNCHANGED unitVars

Tokens == Files \X Files

Init ==
    /\ config \in SeqsUpTo(Tokens, MaxTokens)
    /\ cfgOK \in BOOLEAN
    /\ pc = "load"
    /\ step = 1
    /\ tok = 0
    /\ scenes = [front |-> EmptyScene, back |-> EmptyScene]
    /\ held = {}
    /\ acquired = <<>>
    /\ script = <<>>
    /\ writer = TokenOutputWriter
    /\ resolved = <<>>
    /\ attempted = {}
    /\ failDepth = -1
    /\ unit_pc = "off"
    /\ unit_in = <<>>
    /\ unit_out = <<>>

Next ==
    \/ LoadConfig
    \/ CreateScenes
    \/ RenderFileEnter
    \/ RenderBase
    \/ WritePointsAndPaths
    \/ WriteShapes
    \/ WriteClippedShapes
    \/ WriteGroups
    \/ WriteSolids
    \/ InstantiateGroups
    \/ RenderFileExit

Spec == Init /\ [][Next]_vars

-----------------------------------------------------------------------------
(* Function-level specifications: the inputs are drawn in the initial state *)
(* and one action applies the function.                                     *)

MainOff ==
    /\ config = <<>>
    /\ cfgOK = TRUE
    /\ pc = "off"
    /\ step = 1
    /\ tok = 0
    /\ scenes = [front |-> EmptyScene, back |-> EmptyScene]
    /\ held = {}
    /\ acquired = <<>>
    /\ script = <<>>
    /\ writer = TokenOutputWriter
    /\ resolved = <<>>
    /\ attempted = {}
    /\ failDepth = -1

\* Native coordinates of sampled points, and snap steps as numerators over PxDen
\* (0: no snap)
SvgPoints == {0, 1, 2} \X {0, 1}

Snaps == {0, 127, 300}

SamplerInit ==
    /\ MainOff
    /\ unit_pc = "ready"
    /\ unit_in \in [segment : SeqsUpTo(SvgPoints, MaxPts), snap : Snaps,
                    reverse : BOOLEAN, fill : {"", "red"}]
    /\ unit_out = <<>>

\* TokenShape.from_svg_path on a path of one segment
SamplePath ==
    /\ unit_pc = "ready"
    /\ unit_pc' = "sampled"
    /\ unit_out' = from_svg_path([id |-> "p", fill |-> unit_in.fill,
                                  segments |-> <<unit_in.segment>>],
                                 unit_in.snap, unit_in.reverse)
    /\ UNCHANGED unit_in
    /\ UNCHANGED mainVars

SamplerNext == SamplePath

SamplerSpec == SamplerInit /\ [][SamplerNext]_vars

Fills == {"", "red", "blue"}

\* available_colors: None, or a colour set whose closest() is any classification
Palettes ==
    {NoPalette} \cup { [has |-> TRUE, closest |-> f] : f \in [Colors -> {"red", "blue"}] }

SvgPathsOf(fills) ==
    [i \in 1..Len(fills) |->
        [id |-> ToString(i), fill |-> fills[i],
         segments |-> << << <<i, 0>>, <<i, 1>>, <<0, 1>> >> >>]]

SceneInit ==
    /\ MainOff
    /\ unit_pc = "ready"
    /\ unit_in \in [fills : SeqsUpTo(Fills, MaxShapes), available_colors : Palettes]
    /\ unit_out = <<>>

\* TokenScene.from_svg on the parsed paths of one artwork file
BuildScene ==
    /\ unit_pc = "ready"
    /\ unit_pc' = "built"
    /\ unit_out' = from_svg(SvgPathsOf(unit_in.fills), "f", unit_in.available_colors,
                            0, FALSE)
    /\ UNCHANGED unit_in
    /\ UNCHANGED mainVars

SceneNext == BuildScene

SceneSpec == SceneInit /\ [][SceneNext]_vars

-----------------------------------------------------------------------------
(* Claims *)

Opens(s) == Cardinality({ i \in 1..Len(s) : s[i].k = "open" })

Closes(s) == Cardinality({ i \in 1..Len(s) : s[i].k = "close" })

\* C1: every block opened while compiling a token is closed exactly once, after
\* its body and before its enclosing block closes, also when a statement of the
\* body raises: no prefix of the stream has more closes than opens, every close
\* meets the open of its own block on top, and between writer calls and at the
\* end of the token (returned or raised) no block is open.
C1_BlocksClosed ==
    /\ \A i \in 0..Len(script) :
          Closes(SubSeq(script, 1, i)) <= Opens(SubSeq(script, 1, i))
    /\ OpenBlocks(script).ok
    /\ OpenBlocks(script).st = <<>>

\* a statement raised inside the innermost translate of the base template
C1_Witness == pc = "crashed" /\ failDepth = 3 /\ Closes(script) = 3

ClaimedOrder == <<"points", "shapes", "clipped", "groups", "solids", "instantiate">>

Rank(e) ==
    IF e.face = "base" THEN 0
    ELSE (IF e.face = "front" THEN 0 ELSE Len(ClaimedOrder))
         + (CHOOSE i \in 1..Len(ClaimedOrder) : ClaimedOrder[i] = e.op)

FaceEvents(face) == { i \in 1..Len(script) : script[i].face = face }

Instantiated(face) ==
    \A g \in 1..Len(scenes[face].groups) :
       \E i \in FaceEvents(face) :
          /\ script[i].op = "instantiate"
          /\ script[i].n = TokenGroupNames(scenes[face].groups[g]).solid

\* C2: the stream of a token is the base template, then the six steps of the
\* front scene in the fixed sequence, then the six steps of the back scene: the
\* steps never go backwards, a face write comes only after the whole base
\* template, and a back-face write only after the front face's instantiation.
C2_StreamOrder ==
    /\ \A i \in 1..(Len(script) - 1) : Rank(script[i]) <= Rank(script[i + 1])
    /\ (FaceEvents("front") \cup FaceEvents("back") # {})
          => /\ Len(script) >= Len(render_base)
             /\ SubSeq(script, 1, Len(render_base)) = render_base
    /\ FaceEvents("back") # {} => Instantiated("front")

\* a whole token was emitted, both faces instantiated
C2_Witness ==
    /\ pc = "done"
    /\ Instantiated("back")
    /\ \E i \in FaceEvents("back") : script[i].op = "instantiate"

Entities == DOMAIN resolved

EntityValue(e) ==
    IF e[2] = "shape" THEN scenes[e[1]].shapes[e[3]] ELSE scenes[e[1]].groups[e[3]]

CachedName(e) ==
    IF e[2] = "shape" THEN writer.shape_names[EntityValue(e)].shape
    ELSE writer.group_names[EntityValue(e)].group

\* C3: within one token's script a shape or group keeps the name its first
\* lookup gave it, and two distinct entities (two shapes, or two groups, of the
\* front and back scenes) never have the same name, value-equal or not.
C3_DistinctNames ==
    /\ \A e \in Entities : resolved[e] = CachedName(e)
    /\ \A e1, e2 \in Entities : e1 # e2 => resolved[e1] # resolved[e2]

Occurrences(groups, shape) ==
    { <<g, j>> \in (1..Len(groups)) \X (1..MaxShapes + 1) :
         j <= Len(groups[g].shapes) /\ groups[g].shapes[j] = shape }

Classification(available_colors) ==
    IF available_colors.has THEN available_colors.closest ELSE identity

\* C4: the groups of a scene partition its shapes: every shape is a member of
\* exactly one group, every member is a shape of the scene, and a group's colour
\* is the classification (the identity without a palette) of each member's colour.
C4_GroupsPartition ==
    unit_pc = "built" =>
       /\ \A i \in 1..Len(unit_out.shapes) :
             Cardinality(Occurrences(unit_out.groups, unit_out.shapes[i])) = 1
       /\ \A g \in 1..Len(unit_out.groups) :
             \A j \in 1..Len(unit_out.groups[g].shapes) :
                /\ unit_out.groups[g].shapes[j] \in Range(unit_out.shapes)
                /\ unit_out.groups[g].color =
                      Classification(unit_in.available_colors)
                         [unit_out.groups[g].shapes[j].color]

\* a palette maps two differently filled shapes into one group of another colour
C4_Witness ==
    /\ unit_pc = "built"
    /\ unit_in.available_colors.has
    /\ Len(unit_out.groups) = 2
    /\ \E g \in 1..Len(unit_out.groups) :
          /\ Len(unit_out.groups[g].shapes) = 2
          /\ unit_out.groups[g].shapes[1].color # unit_out.groups[g].shapes[2].color
          /\ unit_out.groups[g].shapes[1].color # unit_out.groups[g].color

EmissionFailed == pc = "crashed" /\ tok \in Range(acquired)

\* C5: when the emission or the backend compilation of a token fails, every
\* token after it in the configuration is still attempted.
C5_LaterTokensAttempted ==
    EmissionFailed => \A t \in (tok + 1)..Len(config) : t \in attempted

Acquisitions(t) == Cardinality({ i \in 1..Len(acquired) : acquired[i] = t })

CurrentKeys ==
    Range(scenes.front.shapes) \cup Range(scenes.back.shapes)
    \cup Range(scenes.front.groups) \cup Range(scenes.back.groups)

\* C6: the output handle is acquired once per token and released on every way
\* out of the token before the next one begins; two handles are never held at
\* once; the writer's caches start empty for each token and hold only entities
\* of that token.
C6_HandleScoped ==
    /\ Cardinality(held) <= 1
    /\ pc \in {"base", "faces", "exit"} => held = {tok} /\ Acquisitions(tok) = 1
    /\ pc \in {"load", "scenes", "enter", "done", "crashed"} => held = {}
    /\ \A t \in 1..Len(config) : Acquisitions(t) <= 1
    /\ pc = "base" => writer = TokenOutputWriter
    /\ DOMAIN writer.shape_names \cup DOMAIN writer.group_names \subseteq CurrentKeys

\* the second token of a batch raised inside a block after the first was released
C6_Witness ==
    /\ tok = 2
    /\ pc = "crashed"
    /\ failDepth >= 1
    /\ acquired = <<1, 2>>
    /\ held = {}

ArtworkMissing ==
    \E t \in 1..Len(config) : config[t][1] \notin Present \/ config[t][2] \notin Present

\* C7: with a malformed or missing configuration, or any artwork file of any
\* token absent, no token is processed: no output script is opened or written.
C7_NothingProcessed ==
    (~cfgOK \/ ArtworkMissing) => acquired = <<>> /\ script = <<>>

SourcePoints == Range(unit_in.segment)

Mirrored(x) == IF unit_in.reverse THEN TokenWidth - x ELSE x

OutPoints == UNION { Range(unit_out.polygon[i]) : i \in 1..Len(unit_out.polygon) }

\* out / PxDen = v * (25.4e-3 / 72) = v * 127 / 360000, both sides divided by 1000
IsMetres(out, v) == out * 360 = v * 127 * (PxDen \div 1000)

\* out / PxDen = v * (25.4 / 72) = v * 127 / 360, both sides divided by 10
IsMillimetres(out, v) == out * 36 = v * 127 * (PxDen \div 10)

C9_NoRepeatedOutputPoint ==
    unit_pc = "sampled" =>
       \A s \in 1..Len(unit_out.polygon) :
          \A i \in 1..(Len(unit_out.polygon[s]) - 1) :
             unit_out.polygon[s][i] # unit_out.polygon[s][i + 1]

Defines(e) == e.k = "def" \/ (e.k = "open" /\ e.op = "groups")

StepDone(face, op) ==
    \E i \in FaceEvents(face) : Rank(script[i]) > Rank([face |-> face, op |-> op])

ModuleOf(face, g) ==
    LET group == scenes[face].groups[g]
        n     == Len(group.shapes)
    IN  \E i \in FaceEvents(face) :
           /\ script[i].k = "open"
           /\ script[i].n = TokenGroupNames(group).group
           /\ i + n + 1 <= Len(script)
           /\ \A m \in 1..n :
                 /\ script[i + m].k = "inst"
                 /\ script[i + m].n = ShapeNames(group.shapes[m]).clipped_shape
                 /\ \E d \in FaceEvents(face) :
                       /\ d < i
                       /\ script[d].k = "def"
                       /\ script[d].op = "clipped"
                       /\ script[d].n = script[i + m].n
           /\ script[i + n + 1].k = "close"

\* C10: in a token's script every instantiation names something defined earlier
\* in the script; a group's module instantiates exactly its members' clipped
\* shapes, in member order, each defined by the clipped-shape step of the same
\* face; and no shape or group name is defined more than once.
C10_DefinedOnceBeforeUse ==
    /\ \A j \in 1..Len(script) :
          script[j].k = "inst" =>
             \E i \in 1..(j - 1) : Defines(script[i]) /\ script[i].n = script[j].n
    /\ \A face \in {"front", "back"} :
          StepDone(face, "groups") =>
             \A g \in 1..Len(scenes[face].groups) : ModuleOf(face, g)
    /\ \A i, j \in 1..Len(script) :
          (i < j /\ Defines(script[i]) /\ Defines(script[j]))
             => script[i].n # script[j].n

====
